---------------------------- MODULE Spec2Model ----------------------------
(***************************************************************************)
(* A model of src/app.py: the interactive PDF splitter.                    *)
(*                                                                         *)
(*   parse_range   - a pure function from a range string and a page count  *)
(*                   to a zero-based inclusive interval or a ValueError;   *)
(*   extract_slice - builds a fresh writer and copies pages start..end;    *)
(*   main          - path prompt, load, input loop, output loop.           *)
(*                                                                         *)
(* A string is a sequence of one-character strings.  A document is the     *)
(* sequence of its page objects.  Python's zero-based index i is element   *)
(* i + 1 of the sequence.                                                  *)
(***************************************************************************)
EXTENDS Integers, Sequences, FiniteSets, TLC

(***************************************************************************)
(* Bounds of the model.                                                    *)
(***************************************************************************)
\* longest range string handed to parse_range in SpecParse
MaxLen == 5
\* largest page count (max_page / len(reader.pages))
MaxPages == 2
\* longest line typed at a "Slice #n:" prompt in Spec (main)
MaxRawLen == 3
\* most non-empty lines typed at the "Slice #n:" prompt in one run of main
MaxInputs == 3
\* most calls of extract_slice in one behaviour of SpecExtract
MaxCalls == 2

(***************************************************************************)
(* Characters and strings.                                                 *)
(***************************************************************************)
Digits == <<"0", "1", "2", "3", "4", "5", "6", "7", "8", "9">>

\* the characters a typed line is made of: digits, the separator, a letter,
\* a blank and a plus sign
Alphabet == {"0", "1", "2", "-", "a", " ", "+"}

Whitespace == {" "}

StringsUpTo(n) == UNION {[1..k -> Alphabet] : k \in 0..n}

IsDigit(c) == \E d \in 1..10 : Digits[d] = c

DigitVal(c) == (CHOOSE d \in 1..10 : Digits[d] = c) - 1

RECURSIVE lstrip(_)
lstrip(s) ==
    IF s # <<>> /\ Head(s) \in Whitespace THEN lstrip(Tail(s)) ELSE s

RECURSIVE rstrip(_)
rstrip(s) ==
    IF s # <<>> /\ s[Len(s)] \in Whitespace
    THEN rstrip(SubSeq(s, 1, Len(s) - 1))
    ELSE s

\* str.strip(): leading and trailing whitespace removed
strip(s) == rstrip(lstrip(s))

\* str.split(sep): the pieces between the occurrences of sep; always at
\* least one piece, empty pieces kept
RECURSIVE split(_, _)
split(s, sep) ==
    IF \A i \in 1..Len(s) : s[i] # sep
    THEN <<s>>
    ELSE LET k == CHOOSE i \in 1..Len(s) :
                      s[i] = sep /\ \A j \in 1..(i - 1) : s[j] # sep
         IN  <<SubSeq(s, 1, k - 1)>> \o split(SubSeq(s, k + 1, Len(s)), sep)

RECURSIVE DecimalValue(_)
DecimalValue(ds) ==
    IF ds = <<>> THEN 0
    ELSE 10 * DecimalValue(SubSeq(ds, 1, Len(ds) - 1)) + DigitVal(ds[Len(ds)])

\* int(str): surrounding whitespace is ignored, one sign is allowed, and at
\* least one digit and nothing but digits must follow; anything else is
\* ValueError("invalid literal for int()").  (The underscores int() allows
\* between digits are not in the alphabet.)
int(tok) ==
    LET t    == strip(tok)
        sgn  == IF t # <<>> /\ t[1] = "-" THEN -1 ELSE 1
        body == IF t # <<>> /\ t[1] \in {"+", "-"} THEN Tail(t) ELSE t
    IN  IF body # <<>> /\ \A i \in 1..Len(body) : IsDigit(body[i])
        THEN [ok |-> TRUE, val |-> sgn * DecimalValue(body)]
        ELSE [ok |-> FALSE, val |-> 0]

\* str(n) for n >= 0, as "{n}" in an f-string formats it
RECURSIVE str(_)
str(n) ==
    IF n < 10 THEN <<Digits[n + 1]>>
    ELSE str(n \div 10) \o <<Digits[(n % 10) + 1]>>

(***************************************************************************)
(* parse_range (src/app.py 8-28).                                          *)
(***************************************************************************)
\* raise ValueError(msg)
ValueError(msg) == [ok |-> FALSE, err |-> msg]

\* return start, end
Return(start, end) == [ok |-> TRUE, start |-> start, end |-> end]

\* the order check before the bounds check
ValidateOrderFirst(start, end, max_page) ==
    IF start > end
    THEN ValueError("Start page must be less than or equal to end page.")
    ELSE IF ~(1 <= start /\ start <= max_page)
            \/ ~(1 <= end /\ end <= max_page)
    THEN ValueError("Page numbers must be within the document length.")
    ELSE Return(start - 1, end - 1)

\* the one-based numbers returned as they are
ValidateOneBased(start, end, max_page) ==
    IF ~(1 <= start /\ start <= max_page)
       \/ ~(1 <= end /\ end <= max_page)
    THEN ValueError("Page numbers must be within the document length.")
    ELSE IF start > end
    THEN ValueError("Start page must be less than or equal to end page.")
    ELSE Return(start, end)

\* page number 0 let through by the bounds check
ValidateZeroAllowed(start, end, max_page) ==
    IF ~(0 <= start /\ start <= max_page)
       \/ ~(0 <= end /\ end <= max_page)
    THEN ValueError("Page numbers must be within the document length.")
    ELSE IF start > end
    THEN ValueError("Start page must be less than or equal to end page.")
    ELSE Return(start - 1, end - 1)

\* lines 22-28: bounds, then order, then the zero-based pair
Validate(start, end, max_page) ==
    IF ~(1 <= start /\ start <= max_page)
       \/ ~(1 <= end /\ end <= max_page)
    THEN ValueError("Page numbers must be within the document length.")
    ELSE IF start > end
    THEN ValueError("Start page must be less than or equal to end page.")
    ELSE Return(start - 1, end - 1)

\* lines 14-20, then Validate
parse_range(range_str, max_page) ==
    LET parts == split(strip(range_str), "-")
    IN  IF Len(parts) = 1
        THEN LET n == int(parts[1])
             IN  IF ~n.ok THEN ValueError("invalid literal for int()")
                 ELSE Validate(n.val, n.val, max_page)
        ELSE IF Len(parts) = 2
        THEN LET a == int(parts[1])
                 b == int(parts[2])
             IN  IF ~a.ok \/ ~b.ok THEN ValueError("invalid literal for int()")
                 ELSE Validate(a.val, b.val, max_page)
        ELSE ValueError("Invalid range format")

\* the spec's two error kinds, by the message the code raises
FormatError(r) ==
    ~r.ok /\ r.err \in {"Invalid range format", "invalid literal for int()"}

OutOfBoundsError(r) ==
    ~r.ok /\ r.err = "Page numbers must be within the document length."

StartAfterEndError(r) ==
    ~r.ok /\ r.err = "Start page must be less than or equal to end page."


(***************************************************************************)
(* extract_slice (src/app.py 31-36).                                       *)
(***************************************************************************)
\* the page objects documents are made of
PageObjects == {"pA", "pB"}

\* every document of at most n pages (a page object may occur twice)
DocumentsUpTo(n) == UNION {[1..k -> PageObjects] : k \in 0..n}

\* PdfWriter(): a new document without pages
PdfWriter == <<>>

\* reader.pages[page_num] is defined for -len <= page_num < len (a negative
\* index counts from the end); any other index raises IndexError
InRange(pages, page_num) == -Len(pages) <= page_num /\ page_num < Len(pages)

GetPage(pages, page_num) ==
    IF page_num >= 0 THEN pages[page_num + 1]
    ELSE pages[Len(pages) + page_num + 1]

\* the page put in front of the pages already added
add_page_front(w, page) == <<page>> \o w

\* writer.add_page(page): the page is appended to the writer's pages
add_page(w, page) == Append(w, page)

\* the loop of lines 34-35 from page_num on, with the writer's pages w so
\* far: the pages of the writer when the range is exhausted, or the
\* IndexError of reader.pages[page_num]
RECURSIVE ExtractLoop(_, _, _, _)
ExtractLoop(pages, w, page_num, end) ==
    IF page_num < end + 1
    THEN IF InRange(pages, page_num)
         THEN ExtractLoop(pages, add_page(w, GetPage(pages, page_num)),
                          page_num + 1, end)
         ELSE [raised |-> TRUE, pages |-> w]
    ELSE [raised |-> FALSE, pages |-> w]

\* one call of extract_slice, start to return
extract_slice(pages, start, end) == ExtractLoop(pages, PdfWriter, start, end)

(***************************************************************************)
(* State.                                                                  *)
(***************************************************************************)
VARIABLES
    \* one call of parse_range
    range_str,      \* argument range_str
    max_page,       \* argument max_page
    result,         \* what the call returned or raised
    parse_pc,       \* "call" before the call, "returned" after
    \* calls of extract_slice, statement by statement
    x_reader,       \* argument reader: the pages of the source document
    x_source,       \* the source document as it was loaded
    x_start,        \* argument start
    x_end,          \* argument end
    x_writer,       \* local writer
    x_page_num,     \* loop variable page_num
    x_pc,           \* "idle", "loop", "raised"
    x_returned,     \* the completed calls: <<start, end, pages returned>>
    x_calls,        \* calls made
    x_returns,      \* calls that returned
    \* main
    pc,             \* "start", "prompt", "write", "done", "crashed"
    path_is_file,   \* pdf_path.is_file()
    load_ok,        \* PdfReader(str(pdf_path)) raised nothing
    reader,         \* reader.pages
    total_pages,    \* total_pages
    slices,         \* slices
    prompt,         \* n of the pending "Slice #n: " prompt, 0 when none
    last,           \* the last pass of the input loop: was raw empty, and
                    \* what parse_range returned or raised
    entered,        \* the numbers typed in the accepted lines, in order
    i,              \* loop variable i of the output loop
    dirs,           \* directories created
    attempts,       \* the writes of output files, in order
    disk,           \* the files written completely
    printed,        \* what was printed after the path prompt
    lines_read,     \* lines read at slice prompts
    parse_calls,    \* calls of parse_range
    extract_calls   \* calls of extract_slice

parse_vars == <<range_str, max_page, result, parse_pc>>

x_vars == <<x_reader, x_source, x_start, x_end, x_writer, x_page_num, x_pc,
            x_returned, x_calls, x_returns>>

main_vars == <<pc, path_is_file, load_ok, reader, total_pages, slices, prompt,
               last, entered, i, dirs, attempts, disk, printed, lines_read,
               parse_calls, extract_calls>>

vars == <<parse_vars, x_vars, main_vars>>

\* the variables of a part of the program that is not running
ParseIdle ==
    /\ range_str = <<>>
    /\ max_page = 0
    /\ result = [ok |-> FALSE, err |-> "not called"]
    /\ parse_pc = "returned"

ExtractIdle ==
    /\ x_reader = <<>>
    /\ x_source = <<>>
    /\ x_start = 0
    /\ x_end = 0
    /\ x_writer = <<>>
    /\ x_page_num = 0
    /\ x_pc = "idle"
    /\ x_returned = {}
    /\ x_calls = 0
    /\ x_returns = 0

\* no pass of the input loop yet
NoPass == [empty |-> FALSE, res |-> [ok |-> FALSE, err |-> "not called"]]

MainIdle ==
    /\ pc = "done"
    /\ path_is_file = FALSE
    /\ load_ok = FALSE
    /\ reader = <<>>
    /\ total_pages = 0
    /\ slices = <<>>
    /\ prompt = 0
    /\ last = NoPass
    /\ entered = <<>>
    /\ i = 0
    /\ dirs = {}
    /\ attempts = <<>>
    /\ disk = {}
    /\ printed = <<>>
    /\ lines_read = 0
    /\ parse_calls = 0
    /\ extract_calls = 0

(***************************************************************************)
(* SpecParse: parse_range applied to every string of at most MaxLen        *)
(* characters and every page count up to MaxPages.                         *)
(***************************************************************************)
InitParse ==
    /\ range_str \in StringsUpTo(MaxLen)
    /\ max_page \in 0..MaxPages
    /\ result = [ok |-> FALSE, err |-> "not called"]
    /\ parse_pc = "call"
    /\ ExtractIdle
    /\ MainIdle

ParseRange ==
    /\ parse_pc = "call"
    /\ result' = parse_range(range_str, max_page)
    /\ parse_pc' = "returned"
    /\ UNCHANGED <<range_str, max_page, x_vars, main_vars>>

NextParse == ParseRange

SpecParse == InitParse /\ [][NextParse]_vars

(***************************************************************************)
(* Claims about parse_range, checked under SpecParse.                      *)
(***************************************************************************)
\* the text "A-B" and the text "N" as a user types them
RangeText(A, B) == str(A) \o <<"-">> \o str(B)

PageText(N) == str(N)

\* C1: for all 1 <= A <= B <= max_page, parse_range("A-B", max_page) returns
\* the zero-based inclusive pair (A-1, B-1); for all 1 <= N <= max_page,
\* parse_range("N", max_page) returns (N-1, N-1), as "N-N" does.
C1_ValidRangeParsed ==
    parse_pc = "returned" =>
        \A A \in 1..max_page :
            /\ \A B \in A..max_page :
                   range_str = RangeText(A, B) =>
                       /\ result.ok
                       /\ result.start = A - 1
                       /\ result.end = B - 1
            /\ range_str = PageText(A) =>
                   /\ result.ok
                   /\ result.start = A - 1
                   /\ result.end = A - 1
                   /\ result = parse_range(RangeText(A, A), max_page)

\* "1-2" on a two-page document has been parsed to (0, 1)
C1_Witness ==
    /\ parse_pc = "returned"
    /\ max_page = 2
    /\ range_str = <<"1", "-", "2">>
    /\ result.ok
    /\ result.start = 0
    /\ result.end = 1

\* the tokens between the '-' of the stripped text
Tokens(s) == split(strip(s), "-")

\* a token that is empty or holds a letter
EmptyOrLetter(tok) == tok = <<>> \/ \E j \in 1..Len(tok) : tok[j] = "a"

\* a shape other than "N" or "A-B": a token count other than 1 or 2, or a
\* token that is no decimal number
Malformed(s) ==
    \/ Len(Tokens(s)) \notin {1, 2}
    \/ \E k \in 1..Len(Tokens(s)) :
           EmptyOrLetter(Tokens(s)[k]) \/ ~int(Tokens(s)[k]).ok

FirstNumber(s) == int(Tokens(s)[1]).val

LastNumber(s) == int(Tokens(s)[Len(Tokens(s))]).val

InBounds(n, pages) == 1 <= n /\ n <= pages

\* C2: the checks are applied in the order shape, bounds, ordering and the
\* first failing one is reported: a malformed text fails with the format
\* error whatever its numbers; a well-formed text with an endpoint outside
\* 1..max_page fails with the out-of-bounds error even when start > end; only
\* a well-formed text with both endpoints in bounds and start > end fails
\* with the start-after-end error.
C2_CheckOrder ==
    parse_pc = "returned" =>
        /\ Malformed(range_str) => FormatError(result)
        /\ ~Malformed(range_str) =>
               LET a == FirstNumber(range_str)
                   b == LastNumber(range_str)
               IN  /\ ~FormatError(result)
                   /\ (~InBounds(a, max_page) \/ ~InBounds(b, max_page))
                          => OutOfBoundsError(result)
                   /\ (InBounds(a, max_page) /\ InBounds(b, max_page) /\ a > b)
                          => StartAfterEndError(result)
                   /\ StartAfterEndError(result)
                          => (InBounds(a, max_page) /\ InBounds(b, max_page)
                              /\ a > b)
        /\ range_str \in {<<>>, <<"a", "-", "2">>, <<"1", "-", "2", "-", "1">>}
               => FormatError(result)
        /\ (range_str = <<"1", "0", "-", "2">> /\ max_page = 2)
               => OutOfBoundsError(result)
        /\ (range_str = <<"2", "-", "1">> /\ max_page = 2)
               => StartAfterEndError(result)

\* "10-2" on a two-page document (out of bounds and start > end) has been
\* rejected with the out-of-bounds error
C2_Witness ==
    /\ parse_pc = "returned"
    /\ max_page = 2
    /\ range_str = <<"1", "0", "-", "2">>
    /\ OutOfBoundsError(result)

(***************************************************************************)
(* SpecExtract: calls of extract_slice on one loaded document, statement   *)
(* by statement, with arguments inside and outside the document.           *)
(***************************************************************************)
\* the values start and end are drawn from
Indices == -1..MaxPages

InitExtract ==
    /\ x_reader \in DocumentsUpTo(MaxPages)
    /\ x_source = x_reader
    /\ x_start = 0
    /\ x_end = 0
    /\ x_writer = <<>>
    /\ x_page_num = 0
    /\ x_pc = "idle"
    /\ x_returned = {}
    /\ x_calls = 0
    /\ x_returns = 0
    /\ ParseIdle
    /\ MainIdle

\* a call that goes on with the writer of the call before
ExtractCallKeepWriter(start, end) ==
    /\ x_pc \in {"idle", "raised"}
    /\ x_calls < MaxCalls
    /\ x_start' = start
    /\ x_end' = end
    /\ x_writer' = x_writer
    /\ x_page_num' = start
    /\ x_pc' = "loop"
    /\ x_calls' = x_calls + 1
    /\ UNCHANGED <<x_reader, x_source, x_returned, x_returns, parse_vars,
                   main_vars>>

\* lines 31-34: the call, writer = PdfWriter(), page_num at start
ExtractCall(start, end) ==
    /\ x_pc \in {"idle", "raised"}
    /\ x_calls < MaxCalls
    /\ x_start' = start
    /\ x_end' = end
    /\ x_writer' = PdfWriter
    /\ x_page_num' = start
    /\ x_pc' = "loop"
    /\ x_calls' = x_calls + 1
    /\ UNCHANGED <<x_reader, x_source, x_returned, x_returns, parse_vars,
                   main_vars>>

\* line 35, one iteration: writer.add_page(reader.pages[page_num]), or the
\* IndexError of reader.pages[page_num] ends the call
ExtractAddPage ==
    /\ x_pc = "loop"
    /\ x_page_num < x_end + 1
    /\ IF InRange(x_reader, x_page_num)
       THEN /\ x_writer' = add_page(x_writer, GetPage(x_reader, x_page_num))
            /\ x_page_num' = x_page_num + 1
            /\ x_pc' = "loop"
       ELSE /\ x_pc' = "raised"
            /\ UNCHANGED <<x_writer, x_page_num>>
    /\ UNCHANGED <<x_reader, x_source, x_start, x_end, x_returned, x_calls,
                   x_returns, parse_vars, main_vars>>

\* line 36: the range is exhausted, return writer
ExtractReturn ==
    /\ x_pc = "loop"
    /\ ~(x_page_num < x_end + 1)
    /\ x_returned' = x_returned \cup {<<x_start, x_end, x_writer>>}
    /\ x_returns' = x_returns + 1
    /\ x_pc' = "idle"
    /\ UNCHANGED <<x_reader, x_source, x_start, x_end, x_writer, x_page_num,
                   x_calls, parse_vars, main_vars>>

NextExtract ==
    \/ \E start \in Indices, end \in Indices : ExtractCall(start, end)
    \/ ExtractAddPage
    \/ ExtractReturn

SpecExtract == InitExtract /\ [][NextExtract]_vars

\* an interval that is valid for a document of n pages
ValidInterval(start, end, n) == 0 <= start /\ start <= end /\ end <= n - 1

\* C4: for every interval (start, end) with 0 <= start <= end <= pageCount-1
\* extract_slice returns a document of exactly end - start + 1 pages whose
\* k-th page is the source page at index start + k (nothing skipped,
\* repeated or reordered), and (0, 0) yields exactly the first page.
C4_ExtractExactPages ==
    /\ \A r \in x_returned :
           ValidInterval(r[1], r[2], Len(x_source)) =>
               /\ Len(r[3]) = r[2] - r[1] + 1
               /\ \A k \in 0..(r[2] - r[1]) : r[3][k + 1] = x_source[r[1] + k + 1]
               /\ (r[1] = 0 /\ r[2] = 0) => r[3] = <<x_source[1]>>
    /\ x_pc = "raised" => ~ValidInterval(x_start, x_end, Len(x_source))

\* pages 0..1 of the document pA, pB have been extracted
C4_Witness ==
    /\ x_source = <<"pA", "pB">>
    /\ <<0, 1, <<"pA", "pB">>>> \in x_returned

\* C5: extract_slice never changes its source (same page count, same pages
\* in the same order after any number of calls), and two calls with the same
\* arguments return the same pages in the same order: every call starts
\* from a fresh writer.
C5_ReadOnlyRepeatable ==
    /\ x_reader = x_source
    /\ \A r1 \in x_returned, r2 \in x_returned :
           (r1[1] = r2[1] /\ r1[2] = r2[2]) => r1[3] = r2[3]
    /\ x_pc = "idle" =>
           (x_calls > 0 => <<x_start, x_end, x_writer>> \in x_returned)

\* two calls with the same arguments have both returned the same page
C5_Witness ==
    /\ x_returns = 2
    /\ x_pc = "idle"
    /\ Cardinality(x_returned) = 1
    /\ x_writer # <<>>

(***************************************************************************)
(* main (src/app.py 39-102).                                               *)
(***************************************************************************)
\* pdf_path.stem of the path typed at the first prompt
Stem == <<"doc">>

\* page k of the loaded document
SourcePage(k) == [obj |-> k]

\* the documents PdfReader may load: n distinct pages, n = 0 included
LoadedDocuments == {[k \in 1..n |-> SourcePage(k)] : n \in 0..MaxPages}

\* the characters of the lines typed at a slice prompt
TypedAlphabet == {"0", "1", "2", "-", " "}

\* the lines a user may type at a slice prompt
TypedLines == UNION {[1..k -> TypedAlphabet] : k \in 0..MaxRawLen}

\* print(...)
Msg(text, n) == [msg |-> text, n |-> n]

\* line 88: pdf_path.parent / f"{pdf_path.stem}_slices"
OutputDir(stem) == stem \o <<"_slices">>

\* the file name without the slice number
OutNameNoIndex(stem, n, start, end) ==
    stem \o <<"_slice_">> \o <<"_pages_">>
         \o str(start + 1) \o <<"-">> \o str(end + 1) \o <<".pdf">>

\* line 93: f"{pdf_path.stem}_slice_{i}_pages_{start+1}-{end+1}.pdf"
OutName(stem, n, start, end) ==
    stem \o <<"_slice_">> \o str(n) \o <<"_pages_">>
         \o str(start + 1) \o <<"-">> \o str(end + 1) \o <<".pdf">>

\* line 94: output_dir / out_name
OutPath(stem, n, start, end) ==
    [dir |-> OutputDir(stem), name |-> OutName(stem, n, start, end)]

InitMain ==
    /\ pc = "start"
    /\ path_is_file = FALSE
    /\ load_ok = FALSE
    /\ reader = <<>>
    /\ total_pages = 0
    /\ slices = <<>>
    /\ prompt = 0
    /\ last = NoPass
    /\ entered = <<>>
    /\ i = 0
    /\ dirs = {}
    /\ attempts = <<>>
    /\ disk = {}
    /\ printed = <<>>
    /\ lines_read = 0
    /\ parse_calls = 0
    /\ extract_calls = 0
    /\ ParseIdle
    /\ ExtractIdle

\* the path prompt where a failed load is reported and the run goes on
\* with an empty document
AskPathNoReturn ==
    /\ pc = "start"
    /\ \E is_file \in BOOLEAN, loads \in BOOLEAN, doc \in LoadedDocuments :
           /\ path_is_file' = is_file
           /\ load_ok' = (is_file /\ loads)
           /\ reader' = IF is_file /\ loads THEN doc ELSE <<>>
           /\ total_pages' = Len(reader')
           /\ printed' =
                  IF ~is_file THEN <<Msg("File not found", 0)>>
                  ELSE IF ~loads THEN <<Msg("Failed to read PDF", 0)>>
                  ELSE <<Msg("Loaded", Len(doc)), Msg("Define page slices", 0)>>
           /\ pc' = "prompt"
           /\ prompt' = Len(slices) + 1
    /\ UNCHANGED <<slices, last, entered, i, dirs, attempts, disk, lines_read,
                   parse_calls, extract_calls, parse_vars, x_vars>>

\* lines 43-72: the path prompt, is_file(), PdfReader, the page count, the
\* empty slices list, the instructions and the first slice prompt
AskPath ==
    /\ pc = "start"
    /\ \E is_file \in BOOLEAN, loads \in BOOLEAN, doc \in LoadedDocuments :
           /\ path_is_file' = is_file
           /\ load_ok' = (is_file /\ loads)
           /\ IF ~is_file
              THEN /\ printed' = <<Msg("File not found", 0)>>
                   /\ pc' = "done"
                   /\ UNCHANGED <<reader, total_pages, prompt>>
              ELSE IF ~loads
              THEN /\ printed' = <<Msg("Failed to read PDF", 0)>>
                   /\ pc' = "done"
                   /\ UNCHANGED <<reader, total_pages, prompt>>
              ELSE /\ reader' = doc
                   /\ total_pages' = Len(doc)
                   /\ printed' = <<Msg("Loaded", Len(doc)),
                                   Msg("Define page slices", 0)>>
                   /\ pc' = "prompt"
                   /\ prompt' = Len(slices) + 1
    /\ UNCHANGED <<slices, last, entered, i, dirs, attempts, disk, lines_read,
                   parse_calls, extract_calls, parse_vars, x_vars>>

\* the end of the input loop without the check for an empty list
EndOfInputNoCheck ==
    /\ dirs' = dirs \cup {OutputDir(Stem)}
    /\ i' = 1
    /\ pc' = IF slices = <<>> THEN "done" ELSE "write"
    /\ UNCHANGED printed

\* lines 81-91 after the break: nothing to do for an empty list, else the
\* output directory is made and the output loop entered
EndOfInput ==
    IF slices = <<>>
    THEN /\ printed' = Append(printed, Msg("No slices defined", 0))
         /\ pc' = "done"
         /\ UNCHANGED <<dirs, i>>
    ELSE /\ dirs' = dirs \cup {OutputDir(Stem)}
         /\ i' = 1
         /\ pc' = "write"
         /\ UNCHANGED printed

\* a ValueError that is not caught
RejectedFatal(ve) ==
    /\ pc' = "crashed"
    /\ UNCHANGED <<slices, entered, printed, prompt>>

\* lines 78-79, then 72: the ValueError is printed and the loop prompts again
Rejected(ve) ==
    /\ printed' = Append(printed, Msg(ve.err, 0))
    /\ prompt' = Len(slices) + 1
    /\ pc' = "prompt"
    /\ UNCHANGED <<slices, entered>>

\* line 77, then 72: the interval is appended and the loop prompts again
Accepted(res, typed) ==
    /\ slices' = Append(slices, <<res.start, res.end>>)
    /\ entered' = Append(entered, typed)
    /\ prompt' = Len(slices') + 1
    /\ pc' = "prompt"
    /\ UNCHANGED printed

\* lines 72-79, one pass of the input loop, and lines 81-91 when it breaks
ReadSlice ==
    /\ pc = "prompt"
    /\ \E line \in TypedLines :
           LET raw == strip(line)
               res == parse_range(raw, total_pages)
           IN  IF raw = <<>>
               THEN /\ last' = [empty |-> TRUE, res |-> NoPass.res]
                    /\ EndOfInput
                    /\ UNCHANGED <<slices, entered, prompt, parse_calls>>
               ELSE /\ lines_read < MaxInputs
                    /\ last' = [empty |-> FALSE, res |-> res]
                    /\ parse_calls' = parse_calls + 1
                    /\ IF res.ok
                       THEN Accepted(res, <<FirstNumber(raw), LastNumber(raw)>>)
                       ELSE Rejected(res)
                    /\ UNCHANGED <<dirs, i>>
    /\ lines_read' = lines_read + 1
    /\ UNCHANGED <<path_is_file, load_ok, reader, total_pages, attempts, disk,
                   extract_calls, parse_vars, x_vars>>

\* what open(out_path, "wb") and writer.write(out_f) may do
WriteOutcomes == {"saved", "open failed", "write failed"}

\* an output loop that stops at the first failed write
WriteSliceStopOnFailure ==
    /\ pc = "write"
    /\ i <= Len(slices)
    /\ LET start == slices[i][1]
           end   == slices[i][2]
           w     == extract_slice(reader, start, end)
       IN  /\ extract_calls' = extract_calls + 1
           /\ \E io \in WriteOutcomes :
                  /\ attempts' = Append(attempts,
                         [path |-> OutPath(Stem, i, start, end),
                          pages |-> w.pages, outcome |-> io])
                  /\ disk' = IF io = "saved"
                             THEN disk \cup {[path |-> OutPath(Stem, i, start, end),
                                              pages |-> w.pages]}
                             ELSE disk
                  /\ printed' =
                         IF io # "saved"
                         THEN Append(printed, Msg("Failed to write slice", i))
                         ELSE IF i = Len(slices)
                         THEN printed \o <<Msg("Saved slice", i), Msg("All done", 0)>>
                         ELSE Append(printed, Msg("Saved slice", i))
                  /\ i' = i + 1
                  /\ pc' = IF i = Len(slices) \/ io # "saved"
                           THEN "done" ELSE "write"
    /\ UNCHANGED <<path_is_file, load_ok, reader, total_pages, slices, prompt,
                   last, entered, dirs, lines_read, parse_calls, parse_vars,
                   x_vars>>

\* lines 91-100, one pass of the output loop, and line 102 after the last:
\* the slice is extracted (an IndexError there is not caught), the file
\* opened and written, and a failure of either is printed
WriteSlice ==
    /\ pc = "write"
    /\ i <= Len(slices)
    /\ LET start == slices[i][1]
           end   == slices[i][2]
           w     == extract_slice(reader, start, end)
           path  == OutPath(Stem, i, start, end)
       IN  /\ extract_calls' = extract_calls + 1
           /\ IF w.raised
              THEN /\ pc' = "crashed"
                   /\ UNCHANGED <<attempts, disk, printed, i>>
              ELSE \E io \in WriteOutcomes :
                  /\ attempts' = Append(attempts,
                         [path |-> path, pages |-> w.pages, outcome |-> io])
                  /\ disk' = IF io = "saved"
                             THEN {f \in disk : f.path # path}
                                      \cup {[path |-> path, pages |-> w.pages]}
                             ELSE disk
                  /\ printed' =
                         printed
                         \o <<IF io = "saved" THEN Msg("Saved slice", i)
                              ELSE Msg("Failed to write slice", i)>>
                         \o IF i = Len(slices) THEN <<Msg("All done", 0)>>
                            ELSE <<>>
                  /\ i' = i + 1
                  /\ pc' = IF i = Len(slices) THEN "done" ELSE "write"
    /\ UNCHANGED <<path_is_file, load_ok, reader, total_pages, slices, prompt,
                   last, entered, dirs, lines_read, parse_calls, parse_vars,
                   x_vars>>

Next ==
    \/ AskPath
    \/ ReadSlice
    \/ WriteSlice

Init == InitMain

Spec == Init /\ [][Next]_vars

(***************************************************************************)
(* Claims about main, checked under Spec.                                  *)
(***************************************************************************)
Range(f) == {f[k] : k \in DOMAIN f}

NothingOnDisk == dirs = {} /\ attempts = <<>> /\ disk = {}

\* C3: every interval stored in slices, and so every interval passed to
\* extract_slice, satisfies 0 <= start <= end <= total_pages - 1, for any
\* typed lines and any page count, 0 included; extract_slice never reads a
\* page outside the document; with no pages no interval is accepted.
C3_SlicesInBounds ==
    /\ \A n \in 1..Len(slices) :
           ValidInterval(slices[n][1], slices[n][2], total_pages)
    /\ total_pages = 0 => slices = <<>>
    /\ pc # "crashed"
    /\ \A n \in 1..Len(attempts) :
           attempts[n].pages =
               [k \in 1..(slices[n][2] - slices[n][1] + 1) |->
                    SourcePage(slices[n][1] + k)]

\* the last page of a two-page document was accepted as a slice and extracted
C3_Witness ==
    /\ pc = "done"
    /\ total_pages = 2
    /\ slices = <<<<1, 1>>>>
    /\ Len(attempts) = 1
    /\ attempts[1].pages = <<SourcePage(2)>>

\* C6: a line that parse_range rejects is not fatal: slices keeps its length
\* and elements, the next prompt carries the same slice number, no directory
\* or file is touched and the loop prompts again; the loop is left only on an
\* empty (whitespace-only) line.
C6_RejectedNotFatal ==
    [][(pc = "prompt" /\ lines_read' = lines_read + 1) =>
           /\ (~last'.empty /\ ~last'.res.ok) =>
                  /\ slices' = slices
                  /\ prompt' = prompt
                  /\ pc' = "prompt"
                  /\ dirs' = dirs
                  /\ attempts' = attempts
                  /\ disk' = disk
           /\ pc' # "prompt" => last'.empty]_vars

\* a line was rejected at the prompt for slice 2 and the prompt is still there
C6_Witness ==
    /\ pc = "prompt"
    /\ lines_read = 2
    /\ ~last.empty
    /\ ~last.res.ok
    /\ Len(slices) = 1
    /\ prompt = 2

\* C7: after the input loop one output file per accepted range is attempted,
\* in acceptance order: the n-th accepted range (rejected lines not counted)
\* goes to <stem>_slices/<stem>_slice_<n>_pages_<A>-<B>.pdf with A, B the
\* one-based numbers typed; duplicates are all kept and the file names of
\* one run are pairwise distinct.
C7_OneFilePerRange ==
    /\ Len(entered) = Len(slices)
    /\ Len(attempts) <= Len(slices)
    /\ (pc = "done" /\ slices # <<>>) => Len(attempts) = Len(slices)
    /\ \A n \in 1..Len(attempts) :
           /\ attempts[n].path.dir = Stem \o <<"_slices">>
           /\ attempts[n].path.dir \in dirs
           /\ attempts[n].path.name =
                  Stem \o <<"_slice_">> \o str(n) \o <<"_pages_">>
                       \o str(entered[n][1]) \o <<"-">> \o str(entered[n][2])
                       \o <<".pdf">>
    /\ \A m \in 1..Len(attempts), n \in 1..Len(attempts) :
           m # n => attempts[m].path # attempts[n].path

\* one line was rejected, the same range accepted twice, and both files
\* were attempted
C7_Witness ==
    /\ pc = "done"
    /\ lines_read = 4
    /\ parse_calls = 3
    /\ Len(slices) = 2
    /\ slices[1] = slices[2]
    /\ Len(attempts) = 2

\* C8: a failed write of slice i is reported for that slice only and the run
\* goes on: every later slice is extracted and its write attempted, the files
\* written are exactly those of the slices whose own write did not fail, and
\* the run reaches its normal end.
C8_WriteFailureNotFatal ==
    /\ pc # "crashed"
    /\ pc = "write" => (i <= Len(slices) /\ Len(attempts) = i - 1)
    /\ (pc = "done" /\ slices # <<>>) =>
           /\ Len(attempts) = Len(slices)
           /\ extract_calls = Len(slices)
           /\ printed[Len(printed)] = Msg("All done", 0)
    /\ disk = {[path |-> attempts[n].path, pages |-> attempts[n].pages] :
                   n \in {m \in 1..Len(attempts) : attempts[m].outcome = "saved"}}
    /\ \A n \in 1..Len(slices) :
           /\ Msg("Failed to write slice", n) \in Range(printed)
                  <=> (n <= Len(attempts) /\ attempts[n].outcome # "saved")
           /\ Msg("Saved slice", n) \in Range(printed)
                  <=> (n <= Len(attempts) /\ attempts[n].outcome = "saved")

\* the write of slice 1 failed, slice 2 was written and the run ended
C8_Witness ==
    /\ pc = "done"
    /\ Len(attempts) = 2
    /\ attempts[1].outcome # "saved"
    /\ attempts[2].outcome = "saved"
    /\ Cardinality(disk) = 1

\* C9: when the path is no file or the document fails to load, the run ends
\* right after the error is printed: no slice prompt, no call of parse_range
\* or extract_slice, no output directory and no output file.
C9_LoadFailureFatal ==
    (pc # "start" /\ ~(path_is_file /\ load_ok)) =>
        /\ pc = "done"
        /\ printed = IF path_is_file THEN <<Msg("Failed to read PDF", 0)>>
                     ELSE <<Msg("File not found", 0)>>
        /\ prompt = 0
        /\ lines_read = 0
        /\ parse_calls = 0
        /\ extract_calls = 0
        /\ slices = <<>>
        /\ NothingOnDisk

\* the file exists, the load failed and the run is over
C9_Witness ==
    /\ pc = "done"
    /\ path_is_file
    /\ ~load_ok

\* C10: nothing is created or written before the empty line that ends the
\* input loop, and when slices is empty at that point the run ends without
\* the output directory, without a call of extract_slice and without a file.
C10_OutputAfterInput ==
    /\ pc \in {"start", "prompt"} => (NothingOnDisk /\ extract_calls = 0)
    /\ (~NothingOnDisk \/ extract_calls > 0) => last.empty
    /\ slices = <<>> => (NothingOnDisk /\ extract_calls = 0)
    /\ (last.empty /\ slices = <<>>) => pc = "done"

\* only rejected lines were typed, then the empty line: the run is over
C10_Witness ==
    /\ pc = "done"
    /\ last.empty
    /\ slices = <<>>
    /\ parse_calls = 2
    /\ NothingOnDisk

=============================================================================
